---- MODULE Spec2Model ----
(***************************************************************************)
(* Model of src/webpack-plugin/bomGenerator.js: resolveComponents builds a *)
(* CycloneDX Bom from webpack's stats modules.  One action per outcome of  *)
(* one iteration of the `for (const moduleData of modules)` loop of        *)
(* buildBom, plus the return of resolveComponents.                         *)
(*                                                                         *)
(* JavaScript values: strings are TLA+ strings, `undefined` is Undef.      *)
(* Objects of bom.dependencies are named by their position in the array    *)
(* (nothing is ever removed from it), so a holder's _dependencies is a     *)
(* sequence of positions.                                                  *)
(***************************************************************************)
EXTENDS Integers, Sequences, FiniteSets, TLC

\* Longest list of webpack module records the build is run on.
MaxModules == 3

\* Versions a dependency tree holds of each of its names.
MaxVersions == 2

\* JavaScript's undefined.
Undef == "<undefined>"

\* !x for a string-or-undefined x.
Falsy(x) == x = Undef \/ x = ""

Range(s) == {s[k] : k \in 1..Len(s)}

\* String.prototype.includes: sub occurs in s.
Contains(s, sub) ==
    \E k \in 1..(Len(s) - Len(sub) + 1) : SubSeq(s, k, k + Len(sub) - 1) = sub

\* s starts with prefix.
HasPrefix(s, prefix) ==
    Len(s) >= Len(prefix) /\ SubSeq(s, 1, Len(prefix)) = prefix

-----------------------------------------------------------------------------
(* The file system the descriptor locator (read-pkg-up) looks at.          *)

AppIndex    == "/app/src/index.js"
AppUtil     == "/app/src/util.js"
LodashIndex == "/app/node_modules/lodash/index.js"
ScopedX     == "/app/node_modules/x/b.js"
NamelessLib == "/vendor/nameless/lib.js"
BrokenFile  == "/broken/p.js"
OrphanFile  == "/orphan.js"
IgnoredPath == "ignored /app/src/skip.js"
ExternalFs  == "external \"fs\""

AppPackage      == [name |-> "app", version |-> "1.0.0", scope |-> Undef]
LodashPackage   == [name |-> "lodash", version |-> "4.17.21", scope |-> Undef]
XPackage        == [name |-> "x", version |-> "2.0.0", scope |-> "sc"]
NamelessPackage == [name |-> "", version |-> "0.0.1", scope |-> Undef]

Found(pkg, at) == [outcome |-> "found", package |-> pkg, path |-> at]

\* readPkgUp({cwd}): the nearest enclosing package.json, nothing when there
\* is none, or an exception (an unparsable package.json).  A cwd that is
\* undefined, empty or not an existing absolute path is resolved against the
\* process's working directory, which is the app's.
readPkgUp(cwd) ==
    CASE cwd \in {AppIndex, AppUtil} -> Found(AppPackage, "/app/package.json")
      [] cwd = LodashIndex -> Found(LodashPackage, "/app/node_modules/lodash/package.json")
      [] cwd = ScopedX     -> Found(XPackage, "/app/node_modules/x/package.json")
      [] cwd = NamelessLib -> Found(NamelessPackage, "/vendor/nameless/package.json")
      [] cwd = BrokenFile  -> [outcome |-> "throws"]
      [] cwd = OrphanFile  -> [outcome |-> "nothing"]
      [] OTHER             -> Found(AppPackage, "/app/package.json")

-----------------------------------------------------------------------------
(* The webpack module records the build is run on.                         *)

NoIssuer       == [defined |-> FALSE, resource |-> Undef]
Issuer(path)   == [defined |-> TRUE, resource |-> path]
Module(iss, r) == [issuer |-> iss, resource |-> r]

\* Paths whose package.json is found and names its package.
NamedPaths == {AppIndex, LodashIndex, ScopedX}

ModuleRecords ==
    {Module(Issuer(e[1]), e[2]) : e \in {f \in NamedPaths \X NamedPaths : f[1] # f[2]}}
    \cup {Module(Issuer(AppIndex), AppUtil),
          Module(Issuer(NamelessLib), LodashIndex),
          Module(Issuer(AppIndex), NamelessLib)}
    \cup {Module(Issuer(r), LodashIndex) :
            r \in {Undef, "", IgnoredPath, ExternalFs, BrokenFile, OrphanFile}}
    \cup {Module(Issuer(AppIndex), d) :
            d \in {Undef, BrokenFile, OrphanFile, ExternalFs}}
    \cup {Module(NoIssuer, LodashIndex)}

RECURSIVE ListsUpTo(_)
ListsUpTo(n) ==
    IF n = 0 THEN {<<>>}
    ELSE LET shorter == ListsUpTo(n - 1)
         IN shorter \cup {Append(l, m) : l \in {s \in shorter : Len(s) = n - 1},
                                            m \in ModuleRecords}

-----------------------------------------------------------------------------
VARIABLES
    modules,        \* the modules argument of resolveComponents
    defaultModule,  \* the defaultModule argument of resolveComponents
    i,              \* position of the record the for-of loop visits next
    pc,             \* "loop", "returned" (the Bom was returned) or "rejected"
    components,     \* bom.components
    dependencies,   \* bom.dependencies: the relation-holders
    bomRefLookup    \* buildBom's bomRefLookup

\* toPackageURL on its own.
VARIABLES
    descriptors,    \* the located descriptors {package, path} it is called on
    identities      \* what each call returned, NotCalled before the call

\* findRoots, which the build never calls, on a dependency tree.
VARIABLES
    lookupMap,      \* dependencyTree.getData().lookupMap: name -> versions -> node
    roots,          \* the tree's roots
    visit,          \* which application of findRoots is running, and the node it is at
    rootsOnce       \* the roots as the first application left them

buildVars == <<modules, defaultModule, i, pc, components, dependencies, bomRefLookup>>

identityVars == <<descriptors, identities>>

rootVars == <<lookupMap, roots, visit, rootsOnce>>

vars == <<buildVars, identityVars, rootVars>>

graph == <<components, dependencies, bomRefLookup>>

\* The variables no step of the build writes.
untouched == <<defaultModule, identityVars, rootVars>>

\* The default of the parameter, {}, and a root module.
EmptyModule == [name |-> Undef, version |-> Undef, scope |-> Undef]

DefaultModules == {EmptyModule, AppPackage}

\* bom.metadata as lines 191-195 leave it: one tool, no component.
metadata ==
    [tools |-> <<[vendor |-> "CycloneDX", name |-> "webpack-plugin",
                  version |-> "program.version"]>>,
     component |-> Undef]

\* No call of toPackageURL on its own is under way.
IdentityIdle ==
    /\ descriptors = <<>>
    /\ identities = <<>>

\* No application of findRoots is under way.
RootsIdle ==
    /\ lookupMap = <<>>
    /\ roots = {}
    /\ visit = [pass |-> 0, at |-> 0]
    /\ rootsOnce = {}

Init ==
    /\ modules \in ListsUpTo(MaxModules)
    /\ defaultModule \in DefaultModules
    /\ i = 1
    /\ pc = "loop"
    /\ components = <<>>
    /\ dependencies = <<>>
    /\ bomRefLookup = <<>>
    /\ IdentityIdle
    /\ RootsIdle

\* No build is under way.
BuildIdle ==
    /\ modules = <<>>
    /\ defaultModule = EmptyModule
    /\ i = 1
    /\ pc = "idle"
    /\ components = <<>>
    /\ dependencies = <<>>
    /\ bomRefLookup = <<>>

-----------------------------------------------------------------------------
(* Package identity (toPackageURL).                                        *)

\* encodeURIComponent on the characters a package name, scope or version of
\* the model contains: '@' and '/' are escaped, the rest is kept.
RECURSIVE encodeURIComponent(_)
encodeURIComponent(s) ==
    IF Len(s) = 0 THEN ""
    ELSE LET c == SubSeq(s, 1, 1)
             e == IF c = "@" THEN "%40" ELSE IF c = "/" THEN "%2F" ELSE c
         IN e \o encodeURIComponent(SubSeq(s, 2, Len(s)))

\* String.prototype.replace(/%2F/g, '/').
RECURSIVE unescapeSlash(_)
unescapeSlash(s) ==
    IF Len(s) < 3 THEN s
    ELSE IF SubSeq(s, 1, 3) = "%2F" THEN "/" \o unescapeSlash(SubSeq(s, 4, Len(s)))
    ELSE SubSeq(s, 1, 1) \o unescapeSlash(SubSeq(s, 2, Len(s)))

\* new PackageURL(type, namespace, name, version, null, null).toString()
PackageURL(type, namespace, name, version) ==
    "pkg:" \o type \o "/"
      \o (IF Falsy(namespace) THEN "" ELSE unescapeSlash(encodeURIComponent(namespace)) \o "/")
      \o encodeURIComponent(name)
      \o (IF Falsy(version) THEN "" ELSE "@" \o encodeURIComponent(version))

\* toPackageURL without the group: the scope is left out of the identity.
toPackageURLUnscoped(module) ==
    IF Falsy(module.name) THEN Undef
    ELSE PackageURL("npm", Undef, module.name, module.version)

toPackageURL(module) ==
    IF Falsy(module.name) THEN Undef
    ELSE LET group == IF Falsy(module.scope) THEN Undef ELSE "@" \o module.scope
         IN PackageURL("npm", group, module.name, module.version)

-----------------------------------------------------------------------------
(* One iteration of buildBom's loop.                                       *)

\* const {issuer: {resource: requester}, resource: dependency} = moduleData
requester(moduleData)  == moduleData.issuer.resource
dependency(moduleData) == moduleData.resource

\* if (!moduleData.issuer || !moduleData.resource) continue;
MissingEndpoint(moduleData) ==
    ~moduleData.issuer.defined \/ Falsy(moduleData.resource)

\* The matcher without its ^external alternative.
ignoredOnlyMatcher(path) == Len(path) >= 7 /\ SubSeq(path, 1, 7) = "ignored"

\* /^ignored|^external/.test(path)
ignoredMatcher(path) ==
    \/ Len(path) >= 7 /\ SubSeq(path, 1, 7) = "ignored"
    \/ Len(path) >= 8 /\ SubSeq(path, 1, 8) = "external"

\* The skip condition without its !requester test.
IgnoredOrExternalUnchecked(moduleData) ==
    \/ Falsy(dependency(moduleData))
    \/ ignoredMatcher(requester(moduleData))

\* if (!requester || !dependency || ignoredMatcher.test(requester)
\*     || ignoredMatcher.test(requester)) continue;
\* A fresh matcher is made per iteration and a failed test leaves its
\* lastIndex at 0, so the second test repeats the first.
IgnoredOrExternal(moduleData) ==
    \/ Falsy(requester(moduleData))
    \/ Falsy(dependency(moduleData))
    \/ ignoredMatcher(requester(moduleData))
    \/ ignoredMatcher(requester(moduleData))

\* The try block: the dependency is looked up only when the requester's
\* lookup did not throw; what was not assigned stays undefined.
requesterPkg(moduleData) == readPkgUp(requester(moduleData))
dependencyPkg(moduleData) ==
    IF requesterPkg(moduleData).outcome = "throws" THEN [outcome |-> "nothing"]
    ELSE readPkgUp(dependency(moduleData))

\* if (requesterPkg && dependencyPkg)
Resolved(moduleData) ==
    /\ requesterPkg(moduleData).outcome = "found"
    /\ dependencyPkg(moduleData).outcome = "found"

requesterBomRef(moduleData)  == toPackageURL(requesterPkg(moduleData).package)
dependencyBomRef(moduleData) == toPackageURL(dependencyPkg(moduleData).package)

\* includes that looks at the entry pushed last only.
includesLast(lookup, ref) == Len(lookup) > 0 /\ lookup[Len(lookup)] = ref

\* bomRefLookup.includes(ref)
includes(lookup, ref) == ref \in Range(lookup)

\* The record the loop is at, and the guards in front of the insertion.
AtRecord == pc = "loop" /\ i <= Len(modules)

Reaches(moduleData) ==
    /\ ~MissingEndpoint(moduleData)
    /\ ~IgnoredOrExternal(moduleData)
    /\ Resolved(moduleData)

continue == /\ i' = i + 1
            /\ UNCHANGED <<modules, pc, untouched>>

\* Line 52: no issuer or no resource.
SkipMissingEndpoint ==
    /\ AtRecord
    /\ MissingEndpoint(modules[i])
    /\ continue
    /\ UNCHANGED graph

\* Line 60: no requester path, or the requester is ignored or external.
SkipIgnored ==
    /\ AtRecord
    /\ ~MissingEndpoint(modules[i])
    /\ IgnoredOrExternal(modules[i])
    /\ continue
    /\ UNCHANGED graph

\* The lookups without the try/catch around them: an exception of readPkgUp
\* rejects the build.
SkipUnresolvedUncaught ==
    /\ pc = "loop" /\ i <= Len(modules)
    /\ modules[i].issuer.defined
    /\ ~Falsy(modules[i].resource)
    /\ ~Falsy(modules[i].issuer.resource)
    /\ ~HasPrefix(modules[i].issuer.resource, "ignored")
    /\ ~HasPrefix(modules[i].issuer.resource, "external")
    /\ \/ readPkgUp(modules[i].issuer.resource).outcome # "found"
       \/ readPkgUp(modules[i].resource).outcome # "found"
    /\ IF \/ readPkgUp(modules[i].issuer.resource).outcome = "throws"
          \/ readPkgUp(modules[i].resource).outcome = "throws"
       THEN pc' = "rejected" /\ i' = i
       ELSE pc' = pc /\ i' = i + 1
    /\ UNCHANGED <<modules, components, dependencies, bomRefLookup, untouched>>

\* Lines 64-73: a lookup threw (caught and logged) or found nothing.
SkipUnresolved ==
    /\ AtRecord
    /\ ~MissingEndpoint(modules[i])
    /\ ~IgnoredOrExternal(modules[i])
    /\ ~Resolved(modules[i])
    /\ continue
    /\ UNCHANGED graph

\* The empty branch of line 97 filled in by half: a holder is added for the
\* requester, and nothing else.
SkipSeenAddsHolder ==
    /\ pc = "loop" /\ i <= Len(modules)
    /\ Reaches(modules[i])
    /\ includes(bomRefLookup, dependencyBomRef(modules[i]))
    /\ dependencies' = Append(dependencies, [ref |-> requesterBomRef(modules[i]),
                                             dependencies |-> <<>>])
    /\ i' = i + 1
    /\ UNCHANGED <<modules, pc, components, bomRefLookup, untouched>>

\* Lines 97-98: the dependency's identity was seen before.
SkipSeen ==
    /\ AtRecord
    /\ Reaches(modules[i])
    /\ includes(bomRefLookup, dependencyBomRef(modules[i]))
    /\ continue
    /\ UNCHANGED graph

\* new Component(pkg): the component's bomRef is the identity of pkg.
Component(pkg) == [bomRef |-> toPackageURL(pkg), package |-> pkg]

\* new Dependency(ref): a relation-holder that links nothing yet.
Dependency(ref) == [ref |-> ref, dependencies |-> <<>>]

\* d.ref for a d of `for (let d in bom.dependencies)`: for-in visits the
\* array's keys ("0", "1", ...), not its elements, and a key has no ref.
forInRef(holders, d) == Undef

\* The position of the holder returned, 0 for undefined.
findDependencyByRef(holders, ref) ==
    LET hits == {d \in 1..Len(holders) :
                    ~Falsy(forInRef(holders, d)) /\ forInRef(holders, d) = ref}
    IN IF hits = {} THEN 0 ELSE CHOOSE d \in hits : \A e \in hits : d <= e

\* Lines 103-107: let dr = findDependencyByRef(requesterBomRef);
\* if (!dr) { dr = new Dependency(requesterBomRef); bom.addDependency(dr); }
withRequesterHolder(holders, ref) ==
    IF findDependencyByRef(holders, ref) = 0
    THEN Append(holders, Dependency(ref))
    ELSE holders

requesterHolder(holders, ref) ==
    IF findDependencyByRef(holders, ref) = 0
    THEN Len(holders) + 1
    ELSE findDependencyByRef(holders, ref)

\* Lines 114-119 left out: no holder is added for the dependency.
withoutDependencyHolder(holders, dr, lookedUp, bomRef) == holders

\* Lines 110-120: dd is looked up by the dependency's identity; when there
\* is none, a holder is added for component.bomRef and pushed on dr's
\* _dependencies (dr is set, and dd, undefined, is not dr).
withDependencyHolder(holders, dr, lookedUp, bomRef) ==
    LET dd == findDependencyByRef(holders, lookedUp)
        added == Append(holders, Dependency(bomRef))
    IN IF dd # 0 THEN holders
       ELSE IF dr # 0 /\ dd # dr
            THEN [added EXCEPT ![dr].dependencies = Append(@, Len(added))]
            ELSE added

\* push left out: the identity is not recorded as seen.
pushForgotten(lookup, ref) == lookup

\* bomRefLookup.push(ref)
push(lookup, ref) == Append(lookup, ref)

\* Lines 99-124: the dependency's identity is new.
AddDependency ==
    /\ AtRecord
    /\ Reaches(modules[i])
    /\ ~includes(bomRefLookup, dependencyBomRef(modules[i]))
    /\ LET component == Component(dependencyPkg(modules[i]).package)
           withDr == withRequesterHolder(dependencies, requesterBomRef(modules[i]))
           dr == requesterHolder(dependencies, requesterBomRef(modules[i]))
       IN /\ components' = Append(components, component)
          /\ dependencies' = withDependencyHolder(withDr, dr,
                                 dependencyBomRef(modules[i]), component.bomRef)
          /\ bomRefLookup' = push(bomRefLookup, dependencyBomRef(modules[i]))
    /\ continue

\* Line 100 on a descriptor without a name: the Component constructor builds
\* a package URL, which has no form without a name.  Whether it throws is
\* the library's choice, so both outcomes are kept: this action (the promise
\* of resolveComponents rejects) and AddDependency.
ComponentRejected ==
    /\ AtRecord
    /\ Reaches(modules[i])
    /\ ~includes(bomRefLookup, dependencyBomRef(modules[i]))
    /\ Falsy(dependencyPkg(modules[i]).package.name)
    /\ pc' = "rejected"
    /\ UNCHANGED <<modules, i, graph, untouched>>

\* Lines 197-198: the loop is over; return bom.
Return ==
    /\ pc = "loop"
    /\ i > Len(modules)
    /\ pc' = "returned"
    /\ UNCHANGED <<modules, i, graph, untouched>>

Next ==
    \/ SkipMissingEndpoint
    \/ SkipIgnored
    \/ SkipUnresolved
    \/ SkipSeen
    \/ AddDependency
    \/ ComponentRejected
    \/ Return

Spec == Init /\ [][Next]_vars

-----------------------------------------------------------------------------
(* The output graph.                                                       *)

TypeOK ==
    /\ i \in 1..(Len(modules) + 1)
    /\ pc \in {"loop", "returned", "rejected", "idle"}
    /\ \A h \in 1..Len(dependencies) :
          \A k \in 1..Len(dependencies[h].dependencies) :
             dependencies[h].dependencies[k] \in 1..Len(dependencies)

ComponentIds == {components[k].bomRef : k \in 1..Len(components)}

HolderRefs == {dependencies[h].ref : h \in 1..Len(dependencies)}

\* The links of the output: holder h has holder dependencies[h].dependencies[k]
\* as the k-th entry of its list.
Links ==
    UNION {{<<h, k>> : k \in 1..Len(dependencies[h].dependencies)} :
              h \in 1..Len(dependencies)}

LinkFrom(l) == dependencies[l[1]].ref
LinkTo(l)   == dependencies[dependencies[l[1]].dependencies[l[2]]].ref

\* How many relations (a -> b) the output holds.
RelationCount(a, b) == Cardinality({l \in Links : LinkFrom(l) = a /\ LinkTo(l) = b})

Relations == {<<LinkFrom(l), LinkTo(l)>> : l \in Links}

\* The records the loop has gone through, and among them the accepted edges:
\* both endpoints present, requester not ignored or external, both
\* descriptors resolved.
Processed == 1..(i - 1)

Accepted(j) ==
    /\ modules[j].issuer.defined
    /\ ~Falsy(modules[j].issuer.resource)
    /\ ~Falsy(modules[j].resource)
    /\ ~HasPrefix(modules[j].issuer.resource, "ignored")
    /\ ~HasPrefix(modules[j].issuer.resource, "external")
    /\ readPkgUp(modules[j].issuer.resource).outcome = "found"
    /\ readPkgUp(modules[j].resource).outcome = "found"

RequesterId(j)  == toPackageURL(readPkgUp(modules[j].issuer.resource).package)
DependencyId(j) == toPackageURL(readPkgUp(modules[j].resource).package)

AcceptedEdges == {j \in Processed : Accepted(j)}

-----------------------------------------------------------------------------
\* C1: the registry holds at most one Component per identity, and exactly one
\* for the dependency identity of every accepted edge gone through.
C1_OneComponentPerIdentity ==
    /\ \A k1, k2 \in 1..Len(components) :
          components[k1].bomRef = components[k2].bomRef => k1 = k2
    /\ \A j \in AcceptedEdges :
          Cardinality({k \in 1..Len(components) :
                          components[k].bomRef = DependencyId(j)}) = 1

\* Two accepted edges with the same dependency identity have been processed.
C1_Witness ==
    \E j1, j2 \in AcceptedEdges :
        /\ j1 # j2
        /\ DependencyId(j1) = DependencyId(j2)
        /\ DependencyId(j1) \in ComponentIds

\* C2: no relation (x -> x) exists in the output for any identity x.
C2_NoSelfRelation ==
    \A x \in HolderRefs : RelationCount(x, x) = 0

\* C3: for every ordered identity pair (a, b) at most one relation (a -> b)
\* exists in the output, however many edges resolve to that pair.
C3_NoDuplicateRelation ==
    \A a, b \in HolderRefs : RelationCount(a, b) <= 1

\* Two accepted edges resolving to the same pair have been processed, and
\* the pair is related.
C3_Witness ==
    \E j1, j2 \in AcceptedEdges :
        /\ j1 # j2
        /\ RequesterId(j1) = RequesterId(j2)
        /\ DependencyId(j1) = DependencyId(j2)
        /\ RelationCount(RequesterId(j1), DependencyId(j1)) = 1

\* C4: for every accepted edge with requester identity a and dependency
\* identity b, a # b, the output holds the relation (a -> b).
C4_AcceptedEdgeRelated ==
    \A j \in AcceptedEdges :
        RequesterId(j) # DependencyId(j)
            => <<RequesterId(j), DependencyId(j)>> \in Relations

\* C5: bom.dependencies holds at most one relation-holder per identity, and
\* findDependencyByRef finds the holder of every ref that was added.
C5_OneHolderPerIdentity ==
    /\ \A h1, h2 \in 1..Len(dependencies) :
          dependencies[h1].ref = dependencies[h2].ref => h1 = h2
    /\ \A h \in 1..Len(dependencies) :
          findDependencyByRef(dependencies, dependencies[h].ref) # 0

\* The requester path of record j starts with "ignored" or "external".
IgnoredRequester(j) ==
    /\ modules[j].issuer.defined
    /\ \/ HasPrefix(modules[j].issuer.resource, "ignored")
       \/ HasPrefix(modules[j].issuer.resource, "external")

\* C6: processing an edge whose requester path starts with "ignored" or
\* "external" adds no Component, no relation-holder and no relation.
C6_IgnoredRequesterContributesNothing ==
    [][(AtRecord /\ IgnoredRequester(i)) => UNCHANGED <<components, dependencies>>]_vars

\* Such an edge has been processed after an accepted edge had filled the graph.
C6_Witness ==
    \E j \in Processed :
        /\ IgnoredRequester(j)
        /\ \E j0 \in AcceptedEdges : j0 < j
        /\ Len(components) > 0

\* Record j has no issuer, no resource, or an empty or undefined requester path.
Malformed(j) ==
    \/ ~modules[j].issuer.defined
    \/ Falsy(modules[j].resource)
    \/ Falsy(modules[j].issuer.resource)

\* C7: a record with a missing issuer, a missing resource or an empty or
\* undefined requester path changes neither the components, the
\* relation-holders, the relations nor the lookup, and the loop goes on to
\* the next record.
C7_MalformedRecordSkipped ==
    [][(AtRecord /\ Malformed(i))
          => (UNCHANGED graph /\ i' = i + 1 /\ pc' = "loop")]_vars

\* A malformed record was passed over and the accepted edge after it was inserted.
C7_Witness ==
    \E j \in Processed :
        /\ Malformed(j)
        /\ j + 1 \in AcceptedEdges
        /\ includes(bomRefLookup, DependencyId(j + 1))

\* The lookup of record j's requester or dependency throws or finds nothing.
LookupFails(j) ==
    /\ ~Malformed(j)
    /\ ~IgnoredRequester(j)
    /\ \/ readPkgUp(modules[j].issuer.resource).outcome # "found"
       \/ readPkgUp(modules[j].resource).outcome # "found"

\* C8: an edge whose descriptor lookup throws or returns nothing contributes
\* nothing and does not abort the build: the loop goes on to the next record.
C8_FailedLookupSkipsEdge ==
    [][(AtRecord /\ LookupFails(i))
          => (UNCHANGED graph /\ i' = i + 1 /\ pc' = "loop")]_vars

\* A lookup threw, the edge after it was inserted and the Bom was returned.
C8_Witness ==
    /\ pc = "returned"
    /\ \E j \in Processed :
          /\ LookupFails(j)
          /\ \/ readPkgUp(modules[j].issuer.resource).outcome = "throws"
             \/ readPkgUp(modules[j].resource).outcome = "throws"
          /\ j + 1 \in AcceptedEdges
          /\ DependencyId(j + 1) \in ComponentIds

\* C9: an edge one of whose identities is undefined is skipped: it adds no
\* Component, and no relation-holder or relation carries an undefined identity.
C9_NamelessEdgeSkipped ==
    /\ Undef \notin HolderRefs
    /\ Undef \notin ComponentIds
    /\ \A j \in AcceptedEdges :
          (RequesterId(j) = Undef \/ DependencyId(j) = Undef)
             => \/ DependencyId(j) \notin ComponentIds
                \/ \E j2 \in AcceptedEdges :
                      /\ RequesterId(j2) # Undef
                      /\ DependencyId(j2) # Undef
                      /\ DependencyId(j2) = DependencyId(j)

\* C10: the Component identities are exactly the dependency identities of
\* the accepted edges, and a package that only ever appears as a requester
\* has a relation-holder but no Component.
C10_OnlyDependenciesAreComponents ==
    /\ ComponentIds = {DependencyId(j) : j \in AcceptedEdges}
    /\ \A j \in AcceptedEdges :
          RequesterId(j) \notin {DependencyId(k) : k \in AcceptedEdges}
             => /\ RequesterId(j) \in HolderRefs
                /\ RequesterId(j) \notin ComponentIds

-----------------------------------------------------------------------------
(* The build as a function of the list it is run on: the loop of buildBom  *)
(* folded over the records, the constructor not throwing.                  *)

emptyGraph == [components |-> <<>>, dependencies |-> <<>>, bomRefLookup |-> <<>>]

\* One iteration of the loop (lines 44-131) on the graph g.
buildStep(g, moduleData) ==
    IF \/ MissingEndpoint(moduleData)
       \/ IgnoredOrExternal(moduleData)
       \/ ~Resolved(moduleData)
       \/ includes(g.bomRefLookup, dependencyBomRef(moduleData))
    THEN g
    ELSE LET component == Component(dependencyPkg(moduleData).package)
             withDr == withRequesterHolder(g.dependencies, requesterBomRef(moduleData))
             dr == requesterHolder(g.dependencies, requesterBomRef(moduleData))
         IN [components   |-> Append(g.components, component),
             dependencies |-> withDependencyHolder(withDr, dr,
                                  dependencyBomRef(moduleData), component.bomRef),
             bomRefLookup |-> push(g.bomRefLookup, dependencyBomRef(moduleData))]

RECURSIVE buildBomOn(_)
buildBomOn(list) ==
    IF list = <<>> THEN emptyGraph
    ELSE buildStep(buildBomOn(SubSeq(list, 1, Len(list) - 1)), list[Len(list)])

\* The loop's state is the fold over the records gone through.
LoopIsFold ==
    graph = <<buildBomOn(SubSeq(modules, 1, i - 1)).components,
              buildBomOn(SubSeq(modules, 1, i - 1)).dependencies,
              buildBomOn(SubSeq(modules, 1, i - 1)).bomRefLookup>>

ComponentIdsOf(g) == {g.components[k].bomRef : k \in 1..Len(g.components)}

RelationsOf(g) ==
    UNION {{<<g.dependencies[h].ref,
              g.dependencies[g.dependencies[h].dependencies[k]].ref>> :
               k \in 1..Len(g.dependencies[h].dependencies)} :
              h \in 1..Len(g.dependencies)}

\* The orders a list of n records can be processed in.
Orders(n) == {p \in [1..n -> 1..n] : \A a, b \in 1..n : p[a] = p[b] => a = b}

Reordered(list, p) == [k \in 1..Len(list) |-> list[p[k]]]

\* C11: the build of any permutation of the input yields the same set of
\* Component identities and the same set of relations as the build of the
\* input.
C11_OrderIndependent ==
    pc = "returned" =>
        \A p \in Orders(Len(modules)) :
            /\ ComponentIdsOf(buildBomOn(Reordered(modules, p))) = ComponentIds
            /\ RelationsOf(buildBomOn(Reordered(modules, p))) = Relations

\* C12: when no module edge contributed a Component, the Bom returned holds
\* a component for defaultModule (among bom.components or as the component
\* of bom.metadata).
C12_DefaultModuleGenerated ==
    (pc = "returned" /\ ~Falsy(defaultModule.name) /\ AcceptedEdges = {})
        => \/ toPackageURL(defaultModule) \in ComponentIds
           \/ /\ metadata.component # Undef
              /\ metadata.component.bomRef = toPackageURL(defaultModule)

-----------------------------------------------------------------------------
(* toPackageURL on pairs of descriptors.                                   *)

NotCalled == "<not called>"

\* Descriptors as package.json files give them: each field a string or
\* absent, the name possibly carrying its scope ("@sc/x").
Descriptors ==
    [name : {Undef, "", "x", "@sc/x"},
     version : {Undef, "", "2.0.0"},
     scope : {Undef, "", "sc"}]

DescriptorPaths == {"/app/node_modules/x/package.json", "/app/packages/x/package.json"}

Located == {Found(d, at) : d \in Descriptors, at \in DescriptorPaths}

IdentityInit ==
    /\ descriptors \in Located \X Located
    /\ identities = <<NotCalled, NotCalled>>
    /\ BuildIdle
    /\ RootsIdle

\* let ref = toPackageURL(pkg.package), for either descriptor, in any order.
Identify ==
    \E k \in 1..2 :
        /\ identities[k] = NotCalled
        /\ identities' = [identities EXCEPT ![k] = toPackageURL(descriptors[k].package)]
        /\ UNCHANGED <<descriptors, buildVars, rootVars>>

IdentityNext == Identify

IdentitySpec == IdentityInit /\ [][IdentityNext]_vars

\* A field that is undefined or empty is absent.
Present(x) == IF x = Undef \/ x = "" THEN Undef ELSE x

SameFields(a, b) ==
    /\ Present(a.scope) = Present(b.scope)
    /\ Present(a.name) = Present(b.name)
    /\ Present(a.version) = Present(b.version)

\* C13: toPackageURL returns undefined exactly when the name is absent
\* (undefined or empty), and otherwise two descriptors get the same identity
\* exactly when they agree on scope, name and version (absent agreeing with
\* absent), whatever their paths and whichever was identified first.
C13_IdentityOfScopeNameVersion ==
    /\ \A k \in 1..Len(identities) :
          identities[k] # NotCalled
             => (identities[k] = Undef <=> Present(descriptors[k].package.name) = Undef)
    /\ \A k1, k2 \in 1..Len(identities) :
          (identities[k1] \notin {NotCalled, Undef} /\ identities[k2] \notin {NotCalled, Undef})
             => (identities[k1] = identities[k2]
                    <=> SameFields(descriptors[k1].package, descriptors[k2].package))

\* Two scoped descriptors read from different paths got the same identity.
C13_Witness ==
    /\ Len(identities) = 2
    /\ identities[1] \notin {NotCalled, Undef}
    /\ identities[1] = identities[2]
    /\ descriptors[1].path # descriptors[2].path
    /\ descriptors[1].package.scope = "sc"

-----------------------------------------------------------------------------
-----------------------------------------------------------------------------
(* findRoots, applied twice to a dependency tree.                          *)

\* Object.keys(lookupMap) and Object.keys(lookupMap[name].versions).
DependencyNames == <<"app", "lodash">>
DependencyVersions == SubSeq(<<"1.0.0", "2.0.0", "3.0.0">>, 1, MaxVersions)

\* The nodes in the order the two nested loops visit them.
NodeOrder ==
    [n \in 1..(Len(DependencyNames) * Len(DependencyVersions)) |->
        <<DependencyNames[((n - 1) \div Len(DependencyVersions)) + 1],
          DependencyVersions[((n - 1) % Len(DependencyVersions)) + 1]>>]

\* node.getData(): what a node is required by, and where it was found.
NodeData ==
    [requiredBy : {<<>>, << <<"lodash", "1.0.0">> >>},
     locations : {<<"/app">>,
                  <<"/app/node_modules/lodash">>,
                  <<"/app/node_modules/lodash", "/packages/lodash">>},
     rootPackage : {FALSE}]

Trees ==
    [Range(DependencyNames) -> [versions : [Range(DependencyVersions) -> NodeData]]]

nodeOf(map, key) == map[key[1]].versions[key[2]]

RootsInit ==
    /\ lookupMap \in Trees
    /\ roots = {}
    /\ visit = [pass |-> 1, at |-> 1]
    /\ rootsOnce = {}
    /\ BuildIdle
    /\ IdentityIdle

\* The root test with the requirers' marks read: a node required only by
\* root packages counts as a root.
rootNodeBelowRoots(map, key) ==
    /\ \A k \in 1..Len(nodeOf(map, key).requiredBy) :
          nodeOf(map, nodeOf(map, key).requiredBy[k]).rootPackage
    /\ \E k \in 1..Len(nodeOf(map, key).locations) :
          ~Contains(nodeOf(map, key).locations[k], "node_modules")

\* The root test with every in the place of some.
rootNodeEvery(map, key) ==
    /\ Len(nodeOf(map, key).requiredBy) = 0
    /\ \A k \in 1..Len(nodeOf(map, key).locations) :
          ~Contains(nodeOf(map, key).locations[k], "node_modules")

\* Lines 178-180: requiredBy.length === 0 &&
\*   locations.some(location => !location.includes('node_modules'))
rootNode(map, key) ==
    /\ Len(nodeOf(map, key).requiredBy) = 0
    /\ \E k \in 1..Len(nodeOf(map, key).locations) :
          ~Contains(nodeOf(map, key).locations[k], "node_modules")

\* node.setRootPackage(flag) and dependencyTree.addRoot(node): the node is
\* marked, and collected among the tree's roots.
setRootPackage(map, key, flag) ==
    [map EXCEPT ![key[1]].versions[key[2]].rootPackage = flag]

addRoot(rootSet, key) == rootSet \cup {key}

Visiting == visit.pass \in {1, 2} /\ visit.at <= Len(NodeOrder)

\* Lines 182-186: the node is a root.
MarkRoot ==
    /\ Visiting
    /\ rootNode(lookupMap, NodeOrder[visit.at])
    /\ lookupMap' = setRootPackage(lookupMap, NodeOrder[visit.at],
                                   rootNode(lookupMap, NodeOrder[visit.at]))
    /\ roots' = addRoot(roots, NodeOrder[visit.at])
    /\ visit' = [visit EXCEPT !.at = @ + 1]
    /\ UNCHANGED <<rootsOnce, buildVars, identityVars>>

\* Line 182, rootNode false: nothing is done for the node.
PassOver ==
    /\ Visiting
    /\ ~rootNode(lookupMap, NodeOrder[visit.at])
    /\ visit' = [visit EXCEPT !.at = @ + 1]
    /\ UNCHANGED <<lookupMap, roots, rootsOnce, buildVars, identityVars>>

\* Line 189: findRoots is over; it is applied once more to the tree as it
\* left it.
FindRootsAgain ==
    /\ visit.pass = 1
    /\ visit.at > Len(NodeOrder)
    /\ rootsOnce' = roots
    /\ visit' = [pass |-> 2, at |-> 1]
    /\ UNCHANGED <<lookupMap, roots, buildVars, identityVars>>

\* Line 189, the second application.
FindRootsDone ==
    /\ visit.pass = 2
    /\ visit.at > Len(NodeOrder)
    /\ visit' = [pass |-> 3, at |-> 1]
    /\ UNCHANGED <<lookupMap, roots, rootsOnce, buildVars, identityVars>>

RootsNext ==
    \/ MarkRoot
    \/ PassOver
    \/ FindRootsAgain
    \/ FindRootsDone

RootsSpec == RootsInit /\ [][RootsNext]_vars

\* The nodes the first application has gone through.
Visited ==
    IF visit.pass = 1 THEN {NodeOrder[n] : n \in 1..(visit.at - 1)}
    ELSE Range(NodeOrder)

\* A location inside a node_modules directory.
Vendored(location) == Contains(location, "node_modules")

\* Required by nothing, and found at some location that is not vendored.
RootByDefinition(key) ==
    /\ nodeOf(lookupMap, key).requiredBy = <<>>
    /\ \E l \in Range(nodeOf(lookupMap, key).locations) : ~Vendored(l)

\* C15: findRoots marks and adds a node exactly when its requiredBy is empty
\* and one of its locations is not under node_modules; a node failing either
\* condition, like a node not visited yet, is neither marked nor added.
C15_RootIffUnrequiredAndLocal ==
    /\ \A key \in Visited :
          /\ key \in roots <=> RootByDefinition(key)
          /\ nodeOf(lookupMap, key).rootPackage <=> RootByDefinition(key)
    /\ \A key \in Range(NodeOrder) \ Visited :
          key \notin roots /\ ~nodeOf(lookupMap, key).rootPackage

\* An application is over with a root added, a node passed over for being
\* required, and a node passed over for being found under node_modules only.
C15_Witness ==
    /\ visit.pass = 2
    /\ \E r, q, v \in Range(NodeOrder) :
          /\ r \in roots /\ nodeOf(lookupMap, r).rootPackage
          /\ Len(nodeOf(lookupMap, r).locations) = 2
          /\ q \notin roots
          /\ nodeOf(lookupMap, q).requiredBy # <<>>
          /\ \E l \in Range(nodeOf(lookupMap, q).locations) : ~Vendored(l)
          /\ v \notin roots
          /\ nodeOf(lookupMap, v).requiredBy = <<>>
          /\ \A l \in Range(nodeOf(lookupMap, v).locations) : Vendored(l)

\* C16: the second application of findRoots leaves the root set the first
\* one left.
C16_FindRootsIdempotent ==
    visit.pass = 3 => roots = rootsOnce

\* Both applications are over, on a tree with roots and with other nodes.
C16_Witness ==
    /\ visit.pass = 3
    /\ roots # {}
    /\ roots # Range(NodeOrder)
    /\ roots = rootsOnce

-----------------------------------------------------------------------------
\* The dependency path of record j starts with "ignored" or "external" and
\* its requester path is an ordinary one.
IgnoredDependency(j) ==
    /\ modules[j].issuer.defined
    /\ ~Falsy(modules[j].issuer.resource)
    /\ ~HasPrefix(modules[j].issuer.resource, "ignored")
    /\ ~HasPrefix(modules[j].issuer.resource, "external")
    /\ \/ HasPrefix(modules[j].resource, "ignored")
       \/ HasPrefix(modules[j].resource, "external")

\* C17: processing an edge whose dependency path starts with "ignored" or
\* "external" adds no Component, no relation-holder and no relation.
C17_IgnoredDependencyContributesNothing ==
    [][(AtRecord /\ IgnoredDependency(i)) => UNCHANGED <<components, dependencies>>]_vars

\* The first accepted edge that names the dependency identity b.
FirstNaming(b) ==
    CHOOSE j \in AcceptedEdges :
        /\ DependencyId(j) = b
        /\ \A j2 \in AcceptedEdges : DependencyId(j2) = b => j <= j2

\* C18: an accepted edge whose dependency identity is already in
\* bomRefLookup changes neither the components, the relation-holders, the
\* relations nor the lookup; so every dependency identity is the target of
\* one relation at most, the one from the requester of the first accepted
\* edge that named it.
C18_SeenDependencyChangesNothing ==
    /\ [][(AtRecord /\ Accepted(i) /\ DependencyId(i) \in Range(bomRefLookup))
             => UNCHANGED graph]_vars
    /\ [](\A l \in Links :
             /\ Cardinality({l2 \in Links : LinkTo(l2) = LinkTo(l)}) = 1
             /\ \E j \in AcceptedEdges : DependencyId(j) = LinkTo(l)
             /\ LinkFrom(l) = RequesterId(FirstNaming(LinkTo(l))))

\* A dependency named by two accepted edges of different requesters is
\* related to the first requester only.
C18_Witness ==
    \E j1, j2 \in AcceptedEdges :
        /\ j1 < j2
        /\ DependencyId(j1) = DependencyId(j2)
        /\ RequesterId(j1) # RequesterId(j2)
        /\ <<RequesterId(j1), DependencyId(j1)>> \in Relations
        /\ <<RequesterId(j2), DependencyId(j2)>> \notin Relations

\* C19: every Component of the registry has a relation-holder whose ref is
\* the Component's identity.
C19_ComponentHasHolder ==
    \A c \in ComponentIds : c \in HolderRefs

\* A Component with its holder, beside a holder whose identity has no
\* Component.
C19_Witness ==
    /\ \E c \in ComponentIds : c \in HolderRefs
    /\ \E ref \in HolderRefs : ref \notin ComponentIds

====
